---- MODULE Spec2Model ----
(***************************************************************************)
(* Model of the vocabulary pipeline of jessejeter/spanish-tools:            *)
(*   analyze_vocab.py  - reads Sheet1/Sheet2, generates the missing         *)
(*                       enrichment cells with Gemini, writes them back in  *)
(*                       batches;                                           *)
(*   sync_vocab.py     - scrapes the SpanishDict lists, carries existing    *)
(*                       analyses forward from the CSV, generates the       *)
(*                       missing ones and rewrites the CSV.                 *)
(* Text values (cells, words, prompts, responses) are sequences of           *)
(* one-character strings, so that strip() and upper() are computed.          *)
(***************************************************************************)
EXTENDS Integers, Sequences, FiniteSets, TLC

VARIABLES
    prog,             \* which entry point runs: "analyze" or "sync"
    environ,          \* os.environ: which secrets are set
    env,              \* what the outside world may do: answer 429, fail, interrupt
    rerun,            \* FALSE in the first run of main, TRUE in the one after it
    pc,               \* position inside main / call_gemini
    Sheet1,           \* the store: rows of Sheet1!A:E
    Sheet2,           \* the store: rows of Sheet2!A:E
    Sheet2AtStart,    \* Sheet2 as it was when the current run started
    words_to_process, \* analyze_vocab.main
    idx,              \* enumerate index of the for loop, 1-based
    pending_updates,  \* analyze_vocab.main
    total_written,    \* analyze_vocab.main
    site,             \* which call site of call_gemini is active: "B" or "E"
    prompt,           \* call_gemini argument
    attempt,          \* call_gemini loop variable
    statuses,         \* the status of every requests.post of the current call, in order
    waits,            \* the time.sleep arguments of the current call, in order
    result,           \* value returned by the last call_gemini
    calls,            \* per run: how often call_gemini was invoked per cell
    generated,        \* per run: the updates whose call succeeded, in order
    failed,           \* per run: the cells whose call raised
    failedPrev,       \* the cells whose call raised in the previous run
    writeLog,         \* per run: the updates sent to batchUpdate, in order
    flushes,          \* per run: the sizes of the batchUpdate calls, in order
    delayed,          \* seconds of time.sleep in main since the last call ended (or the run began)
    pages,            \* sync_vocab: what each SpanishDict list URL answers
    csv,              \* the store of sync_vocab: the file spanishdict_vocab.csv
    csvAtStart,       \* csv as it was when the current run started
    all_words,        \* sync_vocab.main
    existing,         \* sync_vocab.main
    new_count,        \* sync_vocab.main
    wi,               \* index of the for loop over all_words, 1-based
    posted,           \* per run: the words a generation request was posted for
    emptied,          \* per run: the words whose generation request failed
    emptiedPrev,      \* the words whose generation request failed in the previous run
    pauses,           \* per run: number of time.sleep(60)
    exported          \* per run: the rows export_to_csv wrote

vars == <<prog, environ, env, rerun, pc, Sheet1, Sheet2, Sheet2AtStart,
          words_to_process, idx, pending_updates, total_written, site, prompt,
          attempt, statuses, waits, result, calls, generated, failed,
          failedPrev, writeLog, flushes, delayed, pages, csv, csvAtStart,
          all_words, existing, new_count, wi, posted, emptied, emptiedPrev, pauses,
          exported>>

-----------------------------------------------------------------------------
(* Program constants *)

RATE_LIMIT_DELAY == 5
MAX_RETRIES == 5
BATCH_SIZE == 10

(* Bounds of the model *)

MaxRows == 2          \* data rows of a freely chosen sheet
BatchFields == 23     \* flagged fields of the sheets built for batching
NumLists == 2         \* SpanishDict lists scraped by sync_vocab
MaxCsvRows == 2       \* rows of a freely chosen CSV store

-----------------------------------------------------------------------------
(* Text *)

Empty == <<>>
Blank == <<" ">>
Ok == <<"o", "k">>
PaddedOk == <<" ", "o", "k", " ">>
NaLower == <<" ", "#", "n", "/", "a", " ">>
LoadingMixed == <<"L", "o", "a", "d", "i", "n", "g", ".", ".", ".">>

LowerAlpha == <<"a","b","c","d","e","f","g","h","i","j","k","l","m",
                "n","o","p","q","r","s","t","u","v","w","x","y","z">>
UpperAlpha == <<"A","B","C","D","E","F","G","H","I","J","K","L","M",
                "N","O","P","Q","R","S","T","U","V","W","X","Y","Z">>

IsSpace(c) == c \in {" ", "\t", "\n", "\r"}

RECURSIVE lstrip(_)
lstrip(s) ==
    IF s = <<>> THEN s
    ELSE IF IsSpace(Head(s)) THEN lstrip(Tail(s)) ELSE s

RECURSIVE rstrip(_)
rstrip(s) ==
    IF s = <<>> THEN s
    ELSE IF IsSpace(s[Len(s)]) THEN rstrip(SubSeq(s, 1, Len(s) - 1)) ELSE s

strip(s) == rstrip(lstrip(s))

upperChar(c) ==
    IF \E i \in 1..26 : LowerAlpha[i] = c
    THEN UpperAlpha[CHOOSE i \in 1..26 : LowerAlpha[i] = c]
    ELSE c

upper(s) == [i \in 1..Len(s) |-> upperChar(s[i])]

lowerChar(c) ==
    IF \E i \in 1..26 : UpperAlpha[i] = c
    THEN LowerAlpha[CHOOSE i \in 1..26 : UpperAlpha[i] = c]
    ELSE c

lower(s) == [i \in 1..Len(s) |-> lowerChar(s[i])]

DigitChars == <<"0","1","2","3","4","5","6","7","8","9">>

\* str(n) of a non-negative int
RECURSIVE Str(_)
Str(n) ==
    IF n < 10 THEN <<DigitChars[n + 1]>>
    ELSE Str(n \div 10) \o <<DigitChars[(n % 10) + 1]>>

\* the characters of the sort keys, in code point order
CharOrder == <<" ", "#", "-", "/">> \o DigitChars \o <<":">> \o UpperAlpha \o LowerAlpha
CodePoint(c) == CHOOSE i \in 1..Len(CharOrder) : CharOrder[i] = c

\* Python's < on str
RECURSIVE StrLess(_, _)
StrLess(a, b) ==
    IF b = <<>> THEN FALSE
    ELSE IF a = <<>> THEN TRUE
    ELSE IF Head(a) = Head(b) THEN StrLess(Tail(a), Tail(b))
    ELSE CodePoint(Head(a)) < CodePoint(Head(b))

SENTINELS ==
    { <<"#","E","R","R","O","R","!">>,
      <<"#","V","A","L","U","E","!">>,
      <<"#","R","E","F","!">>,
      <<"#","N","/","A">>,
      <<"#","N","A","M","E","?">>,
      <<"L","O","A","D","I","N","G",".",".",".">> }

\* the value is compared with the sentinels as it is spelled
needs_generation_CaseSensitive(value) ==
    LET stripped == strip(value)
    IN  IF value = <<>> \/ stripped = <<>>
        THEN TRUE
        ELSE stripped \in SENTINELS

\* lines 73-78
needs_generation(value) ==
    LET stripped == strip(value)
    IN  IF value = <<>> \/ stripped = <<>>
        THEN TRUE
        ELSE upper(stripped) \in SENTINELS

make_analysis_prompt(spanish_word) ==
    <<"For this word, ">> \o spanish_word \o <<", note the main definition(s) ...">>

make_other_translations_prompt(english_word) ==
    english_word \o <<" What are the main spanish translations of this word? ...">>

\* data["candidates"][0]["content"]["parts"][0]["text"] of the answer to a prompt
ResponseText(p) == <<"re: ">> \o p

-----------------------------------------------------------------------------
(* The sheet store: readRange / batchUpdate *)

ColumnIndex(col) == IF col = "B" THEN 2 ELSE 5

EmptyCells(n) == [k \in 1..n |-> Empty]

\* while len(row) < 5: row.append("")
PadRow(row) == IF Len(row) < 5 THEN row \o EmptyCells(5 - Len(row)) ELSE row

\* One entry of a batchUpdate body: the cell "Sheet2!{col}{row}" gets value v.
SetCell(sheet, col, row, v) ==
    LET c == ColumnIndex(col)
        ext == IF Len(sheet) < row
               THEN sheet \o [k \in 1..(row - Len(sheet)) |-> <<>>]
               ELSE sheet
        old == ext[row]
        wide == IF Len(old) < c THEN old \o EmptyCells(c - Len(old)) ELSE old
    IN  [ext EXCEPT ![row] = [wide EXCEPT ![c] = v]]

RECURSIVE batchUpdate(_, _)
batchUpdate(sheet, data) ==
    IF data = <<>> THEN sheet
    ELSE batchUpdate(SetCell(sheet, Head(data).range.col, Head(data).range.row,
                             Head(data).values),
                     Tail(data))

\* The cell of Sheet2 at (row, col), "" when the row or the cell is absent.
CellOf(sheet, col, row) ==
    IF row <= Len(sheet) /\ ColumnIndex(col) <= Len(sheet[row])
    THEN sheet[row][ColumnIndex(col)]
    ELSE Empty

-----------------------------------------------------------------------------
(* analyze_vocab.main, lines 133-163: find the rows that need generation.   *)
(* Python index i of the loop is row number i + 1, the index used here.     *)

\* the analysis is looked for in column A of Sheet2 instead of column B
WordEntry_WrongColumn(s1rows, s2rows, r) ==
    LET s1_row == PadRow(s1rows[r])
        s2_row == PadRow(IF r <= Len(s2rows) THEN s2rows[r] ELSE <<>>)
    IN  [row |-> r,
         spanish |-> s1_row[2],
         english |-> s1_row[3],
         need_analysis |-> needs_generation(s2_row[1]),
         need_other |-> needs_generation(s2_row[5])]

WordEntry(s1rows, s2rows, r) ==
    LET s1_row == PadRow(s1rows[r])
        s2_row == PadRow(IF r <= Len(s2rows) THEN s2rows[r] ELSE <<>>)
    IN  [row |-> r,
         spanish |-> s1_row[2],
         english |-> s1_row[3],
         need_analysis |-> needs_generation(s2_row[2]),
         need_other |-> needs_generation(s2_row[5])]

RECURSIVE find_words(_, _, _)
find_words(s1rows, s2rows, r) ==
    IF r > Len(s1rows) THEN <<>>
    ELSE LET w == WordEntry(s1rows, s2rows, r)
         IN  (IF w.spanish = Empty THEN <<>>
              ELSE IF w.need_analysis \/ w.need_other THEN <<w>>
              ELSE <<>>) \o find_words(s1rows, s2rows, r + 1)

-----------------------------------------------------------------------------
(* sync_vocab.scrape_spanishdict_list, lines 50-143 *)

PART_OF_SPEECH ==
    << <<1, <<"adjective">>>>, <<2, <<"transitive verb">>>>, <<3, <<"reflexive verb">>>>,
       <<4, <<"noun">>>>, <<5, <<"phrase">>>>, <<9, <<"adverb">>>>,
       <<10, <<"preposition">>>>, <<11, <<"conjunction">>>>, <<12, <<"interjection">>>>,
       <<13, <<"intransitive verb">>>>, <<14, <<"reciprocal verb">>>>,
       <<20, <<"proper noun">>>>, <<22, <<"pronominal verb">>>>,
       <<25, <<"transitive verb phrase">>>>, <<26, <<"intransitive verb phrase">>>>,
       <<27, <<"plural noun">>>>, <<32, <<"pronominal verb phrase">>>> >>

\* PART_OF_SPEECH.get(code, str(code))
PartOfSpeechLabel(code) ==
    IF \E i \in 1..Len(PART_OF_SPEECH) : PART_OF_SPEECH[i][1] = code
    THEN PART_OF_SPEECH[CHOOSE i \in 1..Len(PART_OF_SPEECH) : PART_OF_SPEECH[i][1] = code][2]
    ELSE Str(code)

\* d[key] after "for x in items: d[x.get(field)] = x": the last item with
\* that key; <<>> when d has no such key, <<item>> otherwise
RECURSIVE DictGet(_, _, _)
DictGet(items, field, key) ==
    IF items = <<>> THEN <<>>
    ELSE IF items[Len(items)][field] = key THEN <<items[Len(items)]>>
    ELSE DictGet(SubSeq(items, 1, Len(items) - 1), field, key)

\* lines 98-102: only entries with a non-empty createdAt are stored
Dated(vocab_translations) == SelectSeq(vocab_translations, LAMBDA vt : vt.createdAt # Empty)

\* lines 117-141: the record of one word entry
JoinWord(data, word_entry) ==
    LET sense == DictGet(data.senses, "wordId", word_entry.id)
        \* line 125: "if sense_id" is false for an absent id and for 0
        trans == IF sense # <<>> /\ sense[1].id # 0
                 THEN DictGet(data.translations, "senseId", sense[1].id)
                 ELSE <<>>
        created == IF trans # <<>>
                   THEN DictGet(Dated(data.vocabTranslations), "translationId", trans[1].id)
                   ELSE <<>>
        pos == IF sense # <<>> THEN PartOfSpeechLabel(sense[1].partOfSpeechId) ELSE Empty
        gender == IF sense # <<>> THEN sense[1].gender ELSE Empty
    IN  [spanish |-> word_entry.source,
         english |-> IF trans # <<>> THEN trans[1].translation ELSE Empty,
         context_en |-> IF sense # <<>> THEN sense[1].contextEn ELSE Empty,
         part_of_speech |-> IF gender # Empty
                            THEN pos \o <<" (">> \o gender \o <<")">>
                            ELSE pos,
         popularity |-> word_entry.popularity,
         date_added |-> IF created # <<>>
                        THEN SubSeq(created[1].createdAt, 1, 10)
                        ELSE Empty,
         ai_analysis |-> Empty]

RECURSIVE JoinWords(_, _)
JoinWords(data, word_list) ==
    IF word_list = <<>> THEN <<>>
    ELSE (IF Head(word_list).source = Empty THEN <<>>
          ELSE <<JoinWord(data, Head(word_list))>>) \o JoinWords(data, Tail(word_list))

\* The page of one list: no SD_COMPONENT_DATA marker, a marker around text
\* that is no JSON, or the decoded data.
scrape_spanishdict_list(page) ==
    IF page.kind = "nomarker" THEN <<>>
    ELSE IF page.kind = "badjson" THEN <<>>
    ELSE JoinWords(page.data, page.data.words)

\* sync_vocab.get_all_vocabulary, lines 146-160
RECURSIVE get_all_vocabulary(_)
get_all_vocabulary(ps) ==
    IF ps = <<>> THEN <<>>
    ELSE scrape_spanishdict_list(Head(ps)) \o get_all_vocabulary(Tail(ps))

-----------------------------------------------------------------------------
(* sync_vocab: the CSV store *)

\* load_existing_analyses, lines 163-174: a dict keyed by the Spanish word;
\* a later row of the same word overwrites an earlier one
AnalysedRows(file) ==
    SelectSeq(file.rows, LAMBDA row : strip(row.AI_Analysis) # Empty)

load_existing_analyses(file) ==
    IF ~file.exists THEN <<>>
    ELSE LET rows == AnalysedRows(file)
             keys == {rows[i].Spanish : i \in 1..Len(rows)}
         IN  [k \in keys |-> strip(DictGet(rows, "Spanish", k)[1].AI_Analysis)]

\* the words are compared as they are spelled
KeyLess_CaseSensitive(v, w) ==
    \/ StrLess(v.date_added, w.date_added)
    \/ /\ v.date_added = w.date_added
       /\ StrLess(v.spanish, w.spanish)

\* line 219: the sort key (date_added, spanish.lower())
KeyLess(v, w) ==
    \/ StrLess(v.date_added, w.date_added)
    \/ /\ v.date_added = w.date_added
       /\ StrLess(lower(v.spanish), lower(w.spanish))

\* list.sort is stable: w goes after every element that is not greater
RECURSIVE InsertSorted(_, _)
InsertSorted(sorted, w) ==
    IF sorted = <<>> THEN <<w>>
    ELSE IF KeyLess(w, Head(sorted)) THEN <<w>> \o sorted
    ELSE <<Head(sorted)>> \o InsertSorted(Tail(sorted), w)

RECURSIVE SortWords(_)
SortWords(words) ==
    IF words = <<>> THEN <<>>
    ELSE InsertSorted(SortWords(SubSeq(words, 1, Len(words) - 1)), words[Len(words)])

\* line 225: one row of the CSV
CsvRow(w) ==
    [Date_Added |-> w.date_added,
     Spanish |-> w.spanish,
     English |-> w.english,
     Part_of_Speech |-> w.part_of_speech,
     Popularity |-> Str(w.popularity),
     AI_Analysis |-> w.ai_analysis]

\* export_to_csv, lines 217-227: the file is rewritten
export_to_csv(words) ==
    LET sorted == SortWords(words)
    IN  [exists |-> TRUE, rows |-> [i \in 1..Len(sorted) |-> CsvRow(sorted[i])]]

\* generate_ai_analysis, lines 183-201, reduced to what identifies the word
make_sync_prompt(w) ==
    <<"For these cells, ">> \o w.spanish \o <<", ">> \o w.english \o <<", ">>
        \o w.part_of_speech \o <<", ">> \o Str(w.popularity) \o <<", put them together ...">>

-----------------------------------------------------------------------------
(* Initial states *)

SeqsUpTo(S, n) == UNION {[1..k -> S] : k \in 0..n}

Header1 == <<<<"Date Added">>, <<"Spanish">>, <<"English">>, <<"POS">>, <<"Popularity">>>>
Header2 == <<<<"Word">>, <<"AI Analysis">>, <<"Reviewed">>, <<"Notes">>, <<"Other Translations">>>>

Date1 == <<"2024-01-05">>
Sol == <<"s", "o", "l">>
Sun == <<"s", "u", "n">>

S1RowInputs == { <<>>, <<Date1, Sol, Sun>> }

S2RowInputs ==
    { <<>>,
      <<Empty, Ok>>,
      <<Empty, PaddedOk, Empty, Empty, Ok>>,
      <<Empty, NaLower, Empty, Empty, Ok>>,
      <<Empty, Blank, Empty, Empty, LoadingMixed>> }

SmallSheet1s == {<<>>} \cup {<<Header1>> \o rows : rows \in SeqsUpTo(S1RowInputs, MaxRows)}
SmallSheet2s == {<<>>} \cup {<<Header2>> \o rows : rows \in SeqsUpTo(S2RowInputs, MaxRows)}

\* Sheets for the batching behaviour: a rows needing one field, b rows
\* needing both, c rows needing one, d rows needing both, with
\* a + 2b + c + 2d = BatchFields flagged fields in all.
SingleRow == <<Empty, Empty, Empty, Empty, Ok>>
DoubleRow == <<>>
Repeat(x, n) == [k \in 1..n |-> x]
BatchPatterns ==
    { p \in (0..BatchFields) \X (0..BatchFields) \X (0..BatchFields) \X (0..BatchFields) :
        p[1] + 2 * p[2] + p[3] + 2 * p[4] = BatchFields }
BatchSheet1(p) == <<Header1>> \o Repeat(<<Date1, Sol, Sun>>, p[1] + p[2] + p[3] + p[4])
BatchSheet2(p) ==
    <<Header2>> \o Repeat(SingleRow, p[1]) \o Repeat(DoubleRow, p[2])
                \o Repeat(SingleRow, p[3]) \o Repeat(DoubleRow, p[4])

Cells(sheet1) == {[col |-> c, row |-> r] : c \in {"B", "E"}, r \in 1..Len(sheet1)}

\* Payload fixtures of the SpanishDict lists
DateTime1 == <<"2","0","2","4","-","0","1","-","0","5","T","0","9",":","0","0">>
Mar == <<"m", "a", "r">>
Sea == <<"s", "e", "a">>
Luz == <<"L", "u", "z">>

DataSol ==
    [words |-> <<[id |-> 1, source |-> Sol, popularity |-> 7]>>,
     senses |-> <<[id |-> 11, wordId |-> 1, contextEn |-> Empty, partOfSpeechId |-> 4,
                   gender |-> <<"M">>]>>,
     translations |-> <<[id |-> 21, senseId |-> 11, translation |-> Sun]>>,
     vocabTranslations |-> <<[translationId |-> 21, createdAt |-> DateTime1]>>]

DataMarSol ==
    [words |-> <<[id |-> 2, source |-> Mar, popularity |-> 12],
                 [id |-> 3, source |-> Empty, popularity |-> 0],
                 [id |-> 1, source |-> Sol, popularity |-> 7]>>,
     senses |-> <<[id |-> 12, wordId |-> 2, contextEn |-> Empty, partOfSpeechId |-> 40,
                   gender |-> Empty],
                  [id |-> 11, wordId |-> 1, contextEn |-> Empty, partOfSpeechId |-> 4,
                   gender |-> <<"M">>]>>,
     translations |-> <<[id |-> 22, senseId |-> 12, translation |-> Sea],
                        [id |-> 21, senseId |-> 11, translation |-> Sun]>>,
     vocabTranslations |-> <<[translationId |-> 21, createdAt |-> DateTime1],
                             [translationId |-> 22, createdAt |-> Empty]>>]

PageInputs ==
    { [kind |-> "nomarker", data |-> DataSol],
      [kind |-> "data", data |-> DataSol],
      [kind |-> "data", data |-> DataMarSol] }

\* Rows of the CSV store
StoredRow(word, analysis) ==
    [Date_Added |-> Empty, Spanish |-> word, English |-> Empty,
     Part_of_Speech |-> Empty, Popularity |-> Empty, AI_Analysis |-> analysis]

CsvRowInputs ==
    { StoredRow(Sol, Ok), StoredRow(Sol, Blank), StoredRow(Mar, PaddedOk),
      StoredRow(Luz, NaLower) }

CsvInputs ==
    {[exists |-> FALSE, rows |-> <<>>]}
        \cup {[exists |-> TRUE, rows |-> rows] : rows \in SeqsUpTo(CsvRowInputs, MaxCsvRows)}

NoFile == [exists |-> FALSE, rows |-> <<>>]

InitLocals ==
    /\ rerun = FALSE
    /\ pc = "main"
    /\ Sheet2AtStart = Sheet2
    /\ words_to_process = <<>>
    /\ idx = 0
    /\ pending_updates = <<>>
    /\ total_written = 0
    /\ site = "none"
    /\ prompt = Empty
    /\ attempt = 0
    /\ statuses = <<>>
    /\ waits = <<>>
    /\ result = Empty
    /\ calls = [c \in Cells(Sheet1) |-> 0]
    /\ generated = <<>>
    /\ failed = {}
    /\ failedPrev = {}
    /\ writeLog = <<>>
    /\ flushes = <<>>
    /\ delayed = 0
    /\ csvAtStart = csv
    /\ all_words = <<>>
    /\ existing = <<>>
    /\ new_count = 0
    /\ wi = 0
    /\ posted = <<>>
    /\ emptied = {}
    /\ emptiedPrev = {}
    /\ pauses = 0
    /\ exported = <<>>

\* a service that answers every request, and no interruption
Calm == [rate_limits |-> FALSE, failures |-> "never", aborts |-> FALSE]
\* as Calm, but one request of the behaviour fails
FailOnce == [rate_limits |-> FALSE, failures |-> "once", aborts |-> FALSE]

InitSmall ==
    /\ prog = "analyze"
    /\ environ \in [GEMINI_API_KEY : BOOLEAN, GOOGLE_SHEETS_CREDENTIALS : BOOLEAN]
    /\ env = [rate_limits |-> TRUE, failures |-> "always", aborts |-> TRUE]
    /\ Sheet1 \in SmallSheet1s
    /\ Sheet2 \in {s \in SmallSheet2s : Len(s) <= Len(Sheet1)}
    /\ pages = <<>>
    /\ csv = NoFile
    /\ InitLocals

InitBatch ==
    /\ prog = "analyze"
    /\ environ = [GEMINI_API_KEY |-> TRUE, GOOGLE_SHEETS_CREDENTIALS |-> TRUE]
    /\ \E p \in BatchPatterns :
          /\ Sheet1 = BatchSheet1(p)
          /\ Sheet2 = BatchSheet2(p)
          /\ env \in IF p[3] = 0 /\ p[4] = 0 THEN {Calm, FailOnce} ELSE {Calm}
    /\ pages = <<>>
    /\ csv = NoFile
    /\ InitLocals

InitSync ==
    /\ prog = "sync"
    /\ environ \in [GEMINI_API_KEY : BOOLEAN, GOOGLE_SHEETS_CREDENTIALS : {FALSE}]
    /\ env = [rate_limits |-> FALSE, failures |-> "always", aborts |-> FALSE]
    /\ Sheet1 = <<>>
    /\ Sheet2 = <<>>
    /\ pages \in [1..NumLists -> PageInputs]
    /\ csv \in CsvInputs
    /\ InitLocals

Init == InitSmall \/ InitBatch \/ InitSync

-----------------------------------------------------------------------------
(* analyze_vocab.main *)

callVars == <<site, prompt, attempt, statuses, waits, result>>
storeVars == <<Sheet1, Sheet2, Sheet2AtStart>>
histVars == <<calls, generated, failed, failedPrev, writeLog, flushes, delayed>>
syncVars == <<pages, csv, csvAtStart, all_words, existing, new_count, wi, posted,
              emptied, emptiedPrev, pauses, exported>>
loopVars == <<words_to_process, idx, pending_updates, total_written>>
fixedVars == <<prog, environ, rerun>>

CurrentWord == words_to_process[idx]
CurrentCell == [col |-> site, row |-> CurrentWord.row]

\* lines 112-118 and get_sheets_service, lines 28-31: the secrets
Startup ==
    /\ prog = "analyze"
    /\ pc = "main"
    /\ pc' = IF ~environ.GEMINI_API_KEY THEN "exit"
             ELSE IF ~environ.GOOGLE_SHEETS_CREDENTIALS THEN "exit"
             ELSE "read"
    /\ UNCHANGED <<syncVars, fixedVars, env, storeVars, loopVars, callVars, histVars>>

\* lines 120-174: read both sheets, find the words to process
ReadAndClassify ==
    /\ pc = "read"
    /\ LET sheet1_rows == Sheet1
           sheet2_rows == Sheet2
       IN  IF Len(sheet1_rows) < 2
           THEN /\ pc' = "done"
                /\ UNCHANGED <<words_to_process, idx>>
           ELSE /\ words_to_process' = find_words(sheet1_rows, sheet2_rows, 2)
                /\ IF words_to_process' = <<>>
                   THEN pc' = "done" /\ idx' = idx
                   ELSE pc' = "loop" /\ idx' = 1
    /\ pending_updates' = <<>>
    /\ total_written' = 0
    /\ UNCHANGED <<syncVars, fixedVars, env, storeVars, callVars, histVars>>

\* line 176: the for loop takes the next word, or ends
ForWord ==
    /\ pc = "loop"
    /\ pc' = IF idx <= Len(words_to_process) THEN "analysis" ELSE "final"
    /\ UNCHANGED <<syncVars, fixedVars, env, storeVars, loopVars, callVars, histVars>>

\* call_gemini is entered from call site col with prompt p
EnterCall(col, p) ==
    /\ site' = col
    /\ prompt' = p
    /\ attempt' = 0
    /\ statuses' = <<>>
    /\ waits' = <<>>
    /\ result' = Empty
    /\ calls' = [calls EXCEPT ![[col |-> col, row |-> CurrentWord.row]] = @ + 1]
    /\ pc' = "request"

\* line 183
IfNeedAnalysis ==
    /\ pc = "analysis"
    /\ IF CurrentWord.need_analysis
       THEN /\ EnterCall("B", make_analysis_prompt(CurrentWord.spanish))
            /\ UNCHANGED <<generated, failed, failedPrev, writeLog, flushes, delayed>>
       ELSE /\ pc' = "other"
            /\ UNCHANGED <<callVars, histVars>>
    /\ UNCHANGED <<syncVars, fixedVars, env, storeVars, loopVars>>

\* the second call is made whether or not the field was flagged
IfNeedOther_Always ==
    /\ pc = "other"
    /\ EnterCall("E", make_other_translations_prompt(CurrentWord.english))
    /\ UNCHANGED <<generated, failed, failedPrev, writeLog, flushes, delayed>>
    /\ UNCHANGED <<syncVars, fixedVars, env, storeVars, loopVars>>

\* line 192
IfNeedOther ==
    /\ pc = "other"
    /\ IF CurrentWord.need_other
       THEN /\ EnterCall("E", make_other_translations_prompt(CurrentWord.english))
            /\ UNCHANGED <<generated, failed, failedPrev, writeLog, flushes, delayed>>
       ELSE /\ pc' = "batch"
            /\ UNCHANGED <<callVars, histVars>>
    /\ UNCHANGED <<syncVars, fixedVars, env, storeVars, loopVars>>

-----------------------------------------------------------------------------
(* call_gemini, lines 53-70 *)

\* the delay grows by one base delay per attempt instead of doubling
BackoffWait_Linear(a) == RATE_LIMIT_DELAY * (a + 1)

\* line 63
BackoffWait(a) == RATE_LIMIT_DELAY * (2 ^ a)

\* the loop runs once more than MAX_RETRIES
HasNextAttempt_OffByOne(a) == a + 1 <= MAX_RETRIES

\* line 55: range(MAX_RETRIES) has a next attempt
HasNextAttempt(a) == a + 1 < MAX_RETRIES

\* lines 56-66 and 70: the request is answered 429; sleep, then the next
\* attempt, or the raise after the loop
call_gemini_RateLimited ==
    /\ pc = "request"
    /\ env.rate_limits
    /\ statuses' = Append(statuses, 429)
    /\ waits' = Append(waits, BackoffWait(attempt))
    /\ IF HasNextAttempt(attempt)
       THEN attempt' = attempt + 1 /\ pc' = "request"
       ELSE attempt' = attempt /\ pc' = "raised"
    /\ UNCHANGED <<syncVars, fixedVars, env, storeVars, loopVars, site, prompt, result, histVars>>

\* lines 56-69: the request is answered with a well-formed 200
call_gemini_Success ==
    /\ pc = "request"
    /\ statuses' = Append(statuses, 200)
    /\ result' = ResponseText(prompt)
    /\ pc' = "returned"
    /\ UNCHANGED <<syncVars, fixedVars, env, storeVars, loopVars, site, prompt, attempt, waits, histVars>>

\* lines 56-69: requests.post, raise_for_status, response.json or the
\* subscripts raise
call_gemini_Error ==
    /\ pc = "request"
    /\ env.failures # "never"
    /\ env' = IF env.failures = "once" THEN [env EXCEPT !.failures = "never"] ELSE env
    /\ statuses' = Append(statuses, 500)
    /\ pc' = "raised"
    /\ UNCHANGED <<syncVars, fixedVars, storeVars, loopVars, site, prompt, attempt, waits, result,
                   histVars>>

-----------------------------------------------------------------------------
(* analyze_vocab.main, lines 184-201: after the call *)

\* the frame of call_gemini is gone once main holds its outcome
LeaveCall ==
    /\ prompt' = Empty
    /\ attempt' = 0
    /\ statuses' = <<>>
    /\ waits' = <<>>
    /\ result' = Empty

\* the cell is addressed by the 0-based list index of the record
NewUpdate_ZeroBasedRow(col, row, text) ==
    [range |-> [col |-> col, row |-> row - 1], values |-> text]

\* lines 186 / 197: the entry for the cell Sheet2!{col}{row}
NewUpdate(col, row, text) == [range |-> [col |-> col, row |-> row], values |-> text]

\* lines 186-187 / 197-198
AppendResult ==
    /\ pc = "returned"
    /\ pending_updates' = Append(pending_updates, NewUpdate(site, CurrentWord.row, result))
    /\ generated' = Append(generated, NewUpdate(site, CurrentWord.row, result))
    /\ delayed' = 0
    /\ LeaveCall
    /\ pc' = "sleep"
    /\ UNCHANGED <<syncVars, fixedVars, env, storeVars, words_to_process, idx, total_written,
                   site, calls, failed, failedPrev, writeLog, flushes>>

\* the exception is not caught: the run ends
ExceptException_Propagates ==
    /\ pc = "raised"
    /\ pc' = "aborted"
    /\ UNCHANGED <<syncVars, fixedVars, env, storeVars, loopVars, callVars, histVars>>

\* lines 188-189 / 199-200
ExceptException ==
    /\ pc = "raised"
    /\ failed' = failed \cup {CurrentCell}
    /\ delayed' = 0
    /\ LeaveCall
    /\ pc' = "sleep"
    /\ UNCHANGED <<syncVars, fixedVars, env, storeVars, loopVars, site, calls, generated,
                   failedPrev, writeLog, flushes>>

\* the sleep follows the first field only
SleepAfterCall_FirstFieldOnly ==
    /\ pc = "sleep"
    /\ delayed' = IF site = "B" THEN delayed + RATE_LIMIT_DELAY ELSE delayed
    /\ pc' = IF site = "B" THEN "other" ELSE "batch"
    /\ UNCHANGED <<syncVars, fixedVars, env, storeVars, loopVars, callVars, calls, generated,
                   failed, failedPrev, writeLog, flushes>>

\* lines 190 / 201
SleepAfterCall ==
    /\ pc = "sleep"
    /\ delayed' = delayed + RATE_LIMIT_DELAY
    /\ pc' = IF site = "B" THEN "other" ELSE "batch"
    /\ UNCHANGED <<syncVars, fixedVars, env, storeVars, loopVars, callVars, calls, generated,
                   failed, failedPrev, writeLog, flushes>>

\* the batch is written only once it exceeds BATCH_SIZE
BatchFull_Strict(pending) == Len(pending) > BATCH_SIZE

\* line 204
BatchFull(pending) == Len(pending) >= BATCH_SIZE

\* the batch is written but the buffer is not cleared
WriteBatch_KeepsBuffer ==
    /\ pc = "batch"
    /\ IF BatchFull(pending_updates)
       THEN /\ Sheet2' = batchUpdate(Sheet2, pending_updates)
            /\ writeLog' = writeLog \o pending_updates
            /\ flushes' = Append(flushes, Len(pending_updates))
            /\ total_written' = total_written + Len(pending_updates)
       ELSE UNCHANGED <<Sheet2, writeLog, flushes, total_written>>
    /\ idx' = idx + 1
    /\ pc' = "loop"
    /\ UNCHANGED <<syncVars, fixedVars, env, Sheet1, Sheet2AtStart, words_to_process, callVars,
                   calls, generated, failed, failedPrev, delayed, pending_updates>>

\* lines 204-211
WriteBatch ==
    /\ pc = "batch"
    /\ IF BatchFull(pending_updates)
       THEN /\ Sheet2' = batchUpdate(Sheet2, pending_updates)
            /\ writeLog' = writeLog \o pending_updates
            /\ flushes' = Append(flushes, Len(pending_updates))
            /\ total_written' = total_written + Len(pending_updates)
            /\ pending_updates' = <<>>
       ELSE UNCHANGED <<Sheet2, writeLog, flushes, total_written, pending_updates>>
    /\ idx' = idx + 1
    /\ pc' = "loop"
    /\ UNCHANGED <<syncVars, fixedVars, env, Sheet1, Sheet2AtStart, words_to_process, callVars,
                   calls, generated, failed, failedPrev, delayed>>

\* lines 214-222
WriteFinal ==
    /\ pc = "final"
    /\ IF pending_updates # <<>>
       THEN /\ Sheet2' = batchUpdate(Sheet2, pending_updates)
            /\ writeLog' = writeLog \o pending_updates
            /\ flushes' = Append(flushes, Len(pending_updates))
            /\ total_written' = total_written + Len(pending_updates)
       ELSE UNCHANGED <<Sheet2, writeLog, flushes, total_written>>
    /\ pc' = "done"
    /\ UNCHANGED <<syncVars, fixedVars, env, Sheet1, Sheet2AtStart, words_to_process, idx,
                   pending_updates, callVars, calls, generated, failed, failedPrev, delayed>>

\* lines 206-209 / 216-219: .execute() raises; nothing in main catches it
WriteRaises ==
    /\ \/ pc = "batch" /\ BatchFull(pending_updates)
       \/ pc = "final" /\ pending_updates # <<>>
    /\ env.aborts
    /\ pc' = "aborted"
    /\ UNCHANGED <<syncVars, fixedVars, env, storeVars, loopVars, callVars, histVars>>

\* KeyboardInterrupt / SIGTERM during a request or a sleep: not an
\* Exception, so lines 188 and 199 do not catch it
Interrupt ==
    /\ pc \in {"request", "sleep"}
    /\ env.aborts
    /\ pc' = "aborted"
    /\ UNCHANGED <<syncVars, fixedVars, env, storeVars, loopVars, callVars, histVars>>

-----------------------------------------------------------------------------
(* sync_vocab.main, lines 230-255 *)

analyzeVars == <<storeVars, loopVars, callVars, histVars>>

\* line 237
SyncScrape ==
    /\ prog = "sync"
    /\ pc = "main"
    /\ all_words' = get_all_vocabulary(pages)
    /\ pc' = "load"
    /\ UNCHANGED <<fixedVars, env, analyzeVars, pages, csv, csvAtStart, exported, existing,
                   new_count, wi, posted, emptied, emptiedPrev, pauses>>

\* lines 240-241
SyncLoad ==
    /\ pc = "load"
    /\ existing' = load_existing_analyses(csv)
    /\ new_count' = 0
    /\ wi' = 1
    /\ pc' = "words"
    /\ UNCHANGED <<fixedVars, env, analyzeVars, pages, csv, csvAtStart, exported, all_words,
                   posted, emptied, emptiedPrev, pauses>>

\* lines 243-244: the word has a stored analysis
SyncCarryForward ==
    /\ pc = "words"
    /\ wi <= Len(all_words)
    /\ all_words[wi].spanish \in DOMAIN existing
    /\ all_words' = [all_words EXCEPT ![wi].ai_analysis = existing[all_words[wi].spanish]]
    /\ wi' = wi + 1
    /\ UNCHANGED <<fixedVars, env, analyzeVars, pc, pages, csv, csvAtStart, exported, existing,
                   new_count, posted, emptied, emptiedPrev, pauses>>

\* lines 248-250, after the analysis text has been assigned
CountNew(text) ==
    /\ all_words' = [all_words EXCEPT ![wi].ai_analysis = text]
    /\ new_count' = new_count + 1
    /\ pauses' = IF (new_count + 1) % 15 = 0 THEN pauses + 1 ELSE pauses
    /\ wi' = wi + 1

\* lines 245-247 with generate_ai_analysis, lines 179-181: no API key, no request
SyncGenerateNoKey ==
    /\ pc = "words"
    /\ wi <= Len(all_words)
    /\ all_words[wi].spanish \notin DOMAIN existing
    /\ ~environ.GEMINI_API_KEY
    /\ CountNew(Empty)
    /\ UNCHANGED <<fixedVars, env, analyzeVars, pc, pages, csv, csvAtStart, exported, existing,
                   posted, emptied, emptiedPrev>>

\* lines 245-247 with generate_ai_analysis, lines 203-211: the request succeeds
SyncGenerateSuccess ==
    /\ pc = "words"
    /\ wi <= Len(all_words)
    /\ all_words[wi].spanish \notin DOMAIN existing
    /\ environ.GEMINI_API_KEY
    /\ posted' = Append(posted, all_words[wi].spanish)
    /\ CountNew(strip(ResponseText(make_sync_prompt(all_words[wi]))))
    /\ UNCHANGED <<fixedVars, env, analyzeVars, pc, pages, csv, csvAtStart, exported, existing,
                   emptied, emptiedPrev>>

\* lines 245-247 with generate_ai_analysis, lines 212-214: the request raises
SyncGenerateError ==
    /\ pc = "words"
    /\ wi <= Len(all_words)
    /\ all_words[wi].spanish \notin DOMAIN existing
    /\ environ.GEMINI_API_KEY
    /\ env.failures # "never"
    /\ env' = IF env.failures = "once" THEN [env EXCEPT !.failures = "never"] ELSE env
    /\ posted' = Append(posted, all_words[wi].spanish)
    /\ emptied' = emptied \cup {all_words[wi].spanish}
    /\ CountNew(Empty)
    /\ UNCHANGED <<fixedVars, analyzeVars, pc, pages, csv, csvAtStart, exported, existing,
                   emptiedPrev>>

\* lines 251-255: the loop is over; export_to_csv sorts all_words in place
SyncExport ==
    /\ pc = "words"
    /\ wi > Len(all_words)
    /\ all_words' = SortWords(all_words)
    /\ csv' = export_to_csv(all_words)
    /\ exported' = csv'.rows
    /\ pc' = "done"
    /\ UNCHANGED <<fixedVars, env, analyzeVars, pages, csvAtStart, existing, new_count,
                   wi, posted, emptied, emptiedPrev, pauses>>

\* main is started again on the store the previous run left; the second run
\* is observed with a service that answers every request
Rerun ==
    /\ pc \in {"done", "aborted"}
    /\ ~rerun
    /\ rerun' = TRUE
    /\ pc' = "main"
    /\ Sheet2AtStart' = Sheet2
    /\ words_to_process' = <<>>
    /\ idx' = 0
    /\ pending_updates' = <<>>
    /\ total_written' = 0
    /\ site' = "none"
    /\ prompt' = Empty
    /\ attempt' = 0
    /\ statuses' = <<>>
    /\ waits' = <<>>
    /\ result' = Empty
    /\ calls' = [c \in Cells(Sheet1) |-> 0]
    /\ generated' = <<>>
    /\ failed' = {}
    /\ failedPrev' = failed
    /\ writeLog' = <<>>
    /\ flushes' = <<>>
    /\ delayed' = 0
    /\ env' = Calm
    /\ csvAtStart' = csv
    /\ all_words' = <<>>
    /\ existing' = <<>>
    /\ new_count' = 0
    /\ wi' = 0
    /\ posted' = <<>>
    /\ emptied' = {}
    /\ emptiedPrev' = emptied
    /\ pauses' = 0
    /\ exported' = <<>>
    /\ UNCHANGED <<prog, environ, Sheet1, Sheet2, pages, csv>>

Next ==
    \/ Startup
    \/ ReadAndClassify
    \/ ForWord
    \/ IfNeedAnalysis
    \/ IfNeedOther
    \/ call_gemini_RateLimited
    \/ call_gemini_Success
    \/ call_gemini_Error
    \/ AppendResult
    \/ ExceptException
    \/ SleepAfterCall
    \/ WriteBatch
    \/ WriteFinal
    \/ WriteRaises
    \/ Interrupt
    \/ SyncScrape
    \/ SyncLoad
    \/ SyncCarryForward
    \/ SyncGenerateNoKey
    \/ SyncGenerateSuccess
    \/ SyncGenerateError
    \/ SyncExport
    \/ Rerun

Spec == Init /\ [][Next]_vars

-----------------------------------------------------------------------------
(* Properties of call_gemini *)

Repeated(x, n) == [i \in 1..n |-> x]
IsPrefix(a, b) == Len(a) <= Len(b) /\ SubSeq(b, 1, Len(a)) = a

\* base, 2*base, 4*base, ...: the first k waits of the schedule of the spec
ExpectedWaits(k) == [i \in 1..k |-> RATE_LIMIT_DELAY * (2 ^ (i - 1))]

\* C1: while a call is in progress one wait has been performed after each
\* rate-limited request, the waits being RATE_LIMIT_DELAY * 2^0, ...,
\* RATE_LIMIT_DELAY * 2^(k-1) in that order; and when the first k requests
\* (k < MAX_RETRIES) were answered 429 and request k+1 succeeded, the call
\* returns the text of that request after exactly those k waits.
C1_BackoffSchedule ==
    /\ pc \in {"request", "returned", "raised"} =>
          LET k == Cardinality({i \in 1..Len(statuses) : statuses[i] = 429})
          IN  waits = ExpectedWaits(k)
    /\ pc = "returned" =>
          LET k == Len(statuses) - 1
          IN  /\ k < MAX_RETRIES
              /\ statuses = Repeated(429, k) \o <<200>>
              /\ waits = ExpectedWaits(k)
              /\ result = ResponseText(prompt)

\* C1 witness: three rate-limited requests, then success on the 4th attempt
\* after waits of base, 2*base and 4*base
C1_Witness ==
    /\ pc = "returned"
    /\ statuses = <<429, 429, 429, 200>>
    /\ waits = <<RATE_LIMIT_DELAY, 2 * RATE_LIMIT_DELAY, 4 * RATE_LIMIT_DELAY>>
    /\ result = ResponseText(prompt)

\* C7: a call issues at most MAX_RETRIES requests; a further request is
\* issued only while every answer so far was 429; a call returns a value
\* only for an answered request, and after MAX_RETRIES rate-limited requests
\* it has raised instead of returning or asking again.
C7_BoundedRetries ==
    /\ Len(statuses) <= MAX_RETRIES
    /\ pc = "request" =>
          /\ statuses = Repeated(429, Len(statuses))
          /\ Len(statuses) < MAX_RETRIES
    /\ pc = "returned" => statuses = Repeated(429, Len(statuses) - 1) \o <<200>>
    /\ pc = "raised" =>
          \/ statuses = Repeated(429, MAX_RETRIES)
          \/ statuses = Repeated(429, Len(statuses) - 1) \o <<500>>
    /\ statuses = Repeated(429, MAX_RETRIES) => pc = "raised"

\* C7 witness: every one of the MAX_RETRIES requests was rate-limited and
\* the call has raised
C7_Witness ==
    /\ pc = "raised"
    /\ statuses = Repeated(429, MAX_RETRIES)
    /\ waits = ExpectedWaits(MAX_RETRIES)

-----------------------------------------------------------------------------
(* Properties of the batched writes of analyze_vocab.main *)

\* the store holds the value of update u
InStore(u) == CellOf(Sheet2, u.range.col, u.range.row) = u.values

Count(seq, x) == Cardinality({i \in 1..Len(seq) : seq[i] = x})

\* a run of main that ended normally with 23 successful field completions
Completed23 == prog = "analyze" /\ pc = "done" /\ Len(generated) = 23

-----------------------------------------------------------------------------
(* Properties of the enrichment loop of analyze_vocab.main *)

\* The cells Sheet2!B{r} / Sheet2!E{r} of the records that need the field,
\* read off the sheets as the spec describes them: the record has a source
\* word and the cell is blank or a sentinel.
IsFlagged(s1, s2, c) ==
    /\ c.row >= 2
    /\ Len(s1[c.row]) >= 2
    /\ s1[c.row][2] # Empty
    /\ needs_generation(CellOf(s2, c.col, c.row))

FlaggedCells(s1, s2) == {c \in Cells(s1) : IsFlagged(s1, s2, c)}

UpdatedCells(updates) == {updates[i].range : i \in 1..Len(updates)}

UnwrittenTail == SubSeq(generated, Len(writeLog) + 1, Len(generated))

C4_State ==
    prog = "analyze" =>
        \* nothing is buffered or written for a field whose call failed
        /\ \A c \in failed :
              /\ c \notin UpdatedCells(pending_updates)
              /\ c \notin UpdatedCells(writeLog)
              /\ CellOf(Sheet2, c.col, c.row) = CellOf(Sheet2AtStart, c.col, c.row)
        \* every generated value is still written or buffered
        /\ IsPrefix(writeLog, generated)
        /\ \A i \in 1..Len(writeLog) : InStore(writeLog[i])
        /\ UnwrittenTail # <<>> => pending_updates = UnwrittenTail
        \* a run with failures that reached its end attempted every flagged field
        /\ (pc = "done" /\ failed # {}) =>
              \A c \in FlaggedCells(Sheet1, Sheet2AtStart) : calls[c] = 1

C4_Step ==
    pc = "raised" =>
        /\ pc' = "sleep"
        /\ pending_updates' = pending_updates
        /\ generated' = generated
        /\ writeLog' = writeLog
        /\ Sheet2' = Sheet2
        /\ idx' = idx
        /\ words_to_process' = words_to_process

\* C4: a failed generation call buffers nothing for its field, keeps every
\* value already buffered or written, and is followed by the inter-call
\* sleep and the rest of the loop: a run that had failures and was not
\* interrupted has attempted every flagged field when it ends.
C4_FailureSkipsField == []C4_State /\ [][C4_Step]_vars

\* C4 witness: a call has just failed while earlier values are written and
\* buffered
C4_Witness ==
    /\ pc = "sleep"
    /\ CurrentCell \in failed
    /\ writeLog # <<>>
    /\ pending_updates # <<>>

\* C10: call_gemini is never invoked for an unflagged cell and never twice
\* for a cell, and a run that reaches its end has invoked it exactly once
\* for every cell flagged at the start of the run, whatever the outcomes.
C10_OncePerFlaggedField ==
    prog = "analyze" =>
        /\ \A c \in Cells(Sheet1) :
              calls[c] > 0 => (calls[c] = 1 /\ IsFlagged(Sheet1, Sheet2AtStart, c))
        /\ pc = "done" =>
              \A c \in FlaggedCells(Sheet1, Sheet2AtStart) : calls[c] = 1

\* C10 witness: a finished run in which one call failed, one succeeded and
\* one cell of a processed record was not flagged and not attempted
C10_Witness ==
    /\ prog = "analyze"
    /\ pc = "done"
    /\ failed # {}
    /\ generated # <<>>
    /\ \E c \in FlaggedCells(Sheet1, Sheet2AtStart), d \in Cells(Sheet1) :
          /\ ~IsFlagged(Sheet1, Sheet2AtStart, d)
          /\ d.row = c.row
          /\ calls[c] = 1
          /\ calls[d] = 0

\* a finished run of analyze_vocab.main
Finished == prog = "analyze" /\ pc = "done"

EachWrittenOnce ==
    /\ writeLog = generated
    /\ Cardinality(UpdatedCells(generated)) = Len(generated)
    /\ \A i \in 1..Len(generated) : InStore(generated[i])

\* C8 as stated: at the normal end of a run every generated value has been
\* written exactly once, the pending buffer is empty and total_written is
\* the number of successful calls.
C8_WrittenOnceBufferEmpty ==
    Finished =>
        /\ EachWrittenOnce
        /\ pending_updates = <<>>
        /\ total_written = Len(generated)

\* C8 amended: at the normal end of a run every generated value has been
\* written exactly once, total_written is the number of successful calls,
\* and the pending buffer holds no unwritten value: it is empty or still
\* holds the values of the final batchUpdate, which line 214-220 writes
\* without clearing the list.
C8_WrittenOnce ==
    Finished =>
        /\ EachWrittenOnce
        /\ total_written = Len(generated)
        /\ \/ pending_updates = <<>>
           \/ /\ flushes # <<>>
              /\ Len(pending_updates) = flushes[Len(flushes)]
              /\ pending_updates = SubSeq(writeLog, Len(writeLog) - Len(pending_updates) + 1,
                                          Len(writeLog))

\* C8 witness: a finished run with several batches whose last batch is still
\* in pending_updates
C8_Witness ==
    /\ Finished
    /\ Len(flushes) >= 2
    /\ pending_updates # <<>>
    /\ total_written = Len(generated)

\* C9: when a run is cut short inside the loop, the values buffered at that
\* moment have been written to the store before the run ends.
C9_FlushOnEarlyTermination ==
    (prog = "analyze" /\ pc = "aborted") =>
        \A i \in 1..Len(pending_updates) : InStore(pending_updates[i])

-----------------------------------------------------------------------------
(* Properties of consecutive runs *)

\* an enrichment value that is present and not a sentinel
Enriched(v) == strip(v) # Empty /\ upper(strip(v)) \notin SENTINELS

\* every Sheet1 record with a source word has both enrichment cells
FullyEnrichedSheets(s1, s2) ==
    \A r \in 2..Len(s1) :
        (Len(s1[r]) >= 2 /\ s1[r][2] # Empty) =>
            /\ Enriched(CellOf(s2, "B", r))
            /\ Enriched(CellOf(s2, "E", r))

\* every CSV row with a source word has its enrichment value
FullyEnrichedCsv(file) ==
    /\ file.exists
    /\ \A i \in 1..Len(file.rows) :
          file.rows[i].Spanish # Empty => Enriched(file.rows[i].AI_Analysis)

\* no extracted record is new to the CSV store
NoNewWords(file, words) ==
    \A i \in 1..Len(words) : \E j \in 1..Len(file.rows) : file.rows[j].Spanish = words[i].spanish

AnalyzeOnEnrichedStore ==
    /\ prog = "analyze"
    /\ pc \notin {"main", "read", "exit"}
    /\ FullyEnrichedSheets(Sheet1, Sheet2AtStart)

SyncOnEnrichedStore ==
    /\ prog = "sync"
    /\ pc \in {"words", "done"}
    /\ FullyEnrichedCsv(csvAtStart)
    /\ NoNewWords(csvAtStart, all_words)

NothingGeneratedBySheets ==
    /\ words_to_process = <<>>
    /\ \A c \in Cells(Sheet1) : calls[c] = 0
    /\ generated = <<>>

NothingGeneratedBySync ==
    /\ posted = <<>>
    /\ new_count = 0
    /\ emptied = {}

\* C5 as stated: a run against a fully enriched store flags nothing, makes
\* no generation call and writes no enrichment value to the store, for
\* analyze_vocab.main and for sync_vocab.main.
C5_NoCallsNoWrites ==
    /\ AnalyzeOnEnrichedStore =>
          /\ NothingGeneratedBySheets
          /\ writeLog = <<>>
          /\ Sheet2 = Sheet2AtStart
    /\ SyncOnEnrichedStore =>
          /\ NothingGeneratedBySync
          /\ \A i \in 1..Len(exported) : exported[i].AI_Analysis = Empty

\* C5 amended: a run against a fully enriched store flags nothing and makes
\* no generation call; analyze_vocab.main writes nothing to the store;
\* sync_vocab.main rewrites the CSV, and the enrichment value of every row
\* it writes is the trimmed value stored for that word, never a new one.
C5_NoCallsNothingNew ==
    /\ AnalyzeOnEnrichedStore =>
          /\ NothingGeneratedBySheets
          /\ writeLog = <<>>
          /\ Sheet2 = Sheet2AtStart
    /\ SyncOnEnrichedStore =>
          /\ NothingGeneratedBySync
          /\ pc = "done" => Len(exported) = Len(all_words)
          /\ \A i \in 1..Len(exported) :
                \E j \in 1..Len(csvAtStart.rows) :
                    /\ csvAtStart.rows[j].Spanish = exported[i].Spanish
                    /\ exported[i].AI_Analysis = strip(csvAtStart.rows[j].AI_Analysis)

\* C5 witness: the second run of analyze_vocab.main, on a store whose cell
\* was generated by the first run, ended without a call or a write
C5_Witness ==
    /\ rerun
    /\ pc = "done"
    /\ AnalyzeOnEnrichedStore
    /\ \E r \in 2..Len(Sheet1) :
          CellOf(Sheet2AtStart, "B", r) = ResponseText(make_analysis_prompt(Sol))
    /\ NothingGeneratedBySheets
    /\ writeLog = <<>>

\* the second run of sync_vocab.main on the store its first run filled
C5_SyncRerunReached ==
    /\ rerun
    /\ pc = "done"
    /\ SyncOnEnrichedStore
    /\ all_words # <<>>
    /\ \E i \in 1..Len(exported) :
          exported[i].AI_Analysis = strip(ResponseText(make_sync_prompt(all_words[i])))

\* the field of record w is flagged for cell c
FlaggedFor(w, c) ==
    /\ w.row = c.row
    /\ IF c.col = "B" THEN w.need_analysis ELSE w.need_other

\* analyze_vocab: a cell whose call failed in the previous run is flagged
\* and attempted by this run
C6_Sheets ==
    (prog = "analyze" /\ rerun /\ pc \notin {"main", "read", "exit"}) =>
        \A c \in failedPrev :
            /\ ~Enriched(CellOf(Sheet2AtStart, c.col, c.row))
            /\ \E i \in 1..Len(words_to_process) : FlaggedFor(words_to_process[i], c)
            /\ pc = "done" => calls[c] = 1

\* sync_vocab: a word whose request failed in the previous run has no
\* existing analysis in this run and is requested again
C6_Csv ==
    (prog = "sync" /\ rerun /\ pc \in {"words", "done"}) =>
        \A w \in emptiedPrev :
            /\ w \notin DOMAIN existing
            /\ (pc = "done" /\ environ.GEMINI_API_KEY) =>
                  \E i \in 1..Len(posted) : posted[i] = w

\* C6: a field whose generation call failed in one run is classified as
\* needing enrichment by the next run and attempted again, in analyze_vocab
\* and in sync_vocab.
C6_FailedFieldRetried == C6_Sheets /\ C6_Csv

\* no source word occurs twice in the extracted record set
NoDuplicateWords ==
    \A i, j \in 1..Len(all_words) : all_words[i].spanish = all_words[j].spanish => i = j

\* what holds of sync_vocab when no word is extracted twice
C6_CsvWithoutDuplicates == NoDuplicateWords => C6_Csv

-----------------------------------------------------------------------------
(* Pacing of the generation calls *)

\* a generation call of this run has ended, by return or by raise
SomeCallEnded == generated # <<>> \/ failed # {}

InCall == pc \in {"request", "returned", "raised"}

CallsStarted == Cardinality({c \in DOMAIN calls : calls[c] > 0})

\* C11: whenever a generation call is running and an earlier call of the run
\* has ended, main has slept RATE_LIMIT_DELAY seconds between the two,
\* whichever field the earlier call was for and however it ended; and calls
\* are serialized: every call started before the running one has ended.
C11_DelayBetweenCalls ==
    (prog = "analyze" /\ pc # "aborted") =>
        /\ (pc = "request" /\ SomeCallEnded) => delayed = RATE_LIMIT_DELAY
        /\ (pc \in {"analysis", "other"} /\ SomeCallEnded) => delayed = RATE_LIMIT_DELAY
        /\ CallsStarted = Len(generated) + Cardinality(failed) + (IF InCall THEN 1 ELSE 0)

\* C11 witness: the call for field E of a later record is running after the
\* call for field B of an earlier record failed and one for field E succeeded
C11_Witness ==
    /\ prog = "analyze"
    /\ pc = "request"
    /\ site = "E"
    /\ idx > 1
    /\ failed # {}
    /\ \E i \in 1..Len(generated) : generated[i].range.col = "E"
    /\ delayed = RATE_LIMIT_DELAY

-----------------------------------------------------------------------------
(* The Entity Joiner on its own: scrape_spanishdict_list applied to one page *)

MaxWords == 2         \* words of a one-to-one payload

Light == <<"l", "i", "g", "h", "t">>
Moon == <<"m", "o", "o", "n">>
WordTexts == <<Sol, Mar, Luz>>
TranslationTexts == <<Sun, Sea, Light>>

\* the ways to give n entities distinct ids out of 0..n
IdChoices(n) == {ids \in [1..n -> 0..n] : \A i, j \in 1..n : ids[i] = ids[j] => i = j}

SenseEntry(id, wordId, context) ==
    [id |-> id, wordId |-> wordId, contextEn |-> context, partOfSpeechId |-> 4,
     gender |-> Empty]

\* n words, each with one sense, each sense with one translation; the senses
\* stand in the payload in the reverse order of their words
OneToOneData(n, wid, sid, tid) ==
    [words |-> [i \in 1..n |-> [id |-> wid[i], source |-> WordTexts[i], popularity |-> i]],
     senses |-> [j \in 1..n |-> SenseEntry(sid[n + 1 - j], wid[n + 1 - j], Empty)],
     translations |-> [i \in 1..n |->
                          [id |-> tid[i], senseId |-> sid[i], translation |-> TranslationTexts[i]]],
     vocabTranslations |-> <<>>]

\* one word with two senses, each sense with two translations
SenseA == SenseEntry(11, 1, <<"a">>)
SenseB == SenseEntry(12, 1, <<"b">>)
TranslationsOfAB ==
    { [id |-> 21, senseId |-> 11, translation |-> Sun],
      [id |-> 22, senseId |-> 11, translation |-> Sea],
      [id |-> 23, senseId |-> 12, translation |-> Light],
      [id |-> 24, senseId |-> 12, translation |-> Moon] }

Orderings(S) == {q \in [1..Cardinality(S) -> S] : \A i, j \in DOMAIN q : q[i] = q[j] => i = j}

SharedIdPayloads ==
    { [words |-> <<[id |-> 1, source |-> Sol, popularity |-> 7]>>,
       senses |-> ss,
       translations |-> ts,
       vocabTranslations |-> <<>>] :
      ss \in Orderings({SenseA, SenseB}), ts \in Orderings(TranslationsOfAB) }

InitJoin ==
    /\ prog = "sync"
    /\ environ = [GEMINI_API_KEY |-> FALSE, GOOGLE_SHEETS_CREDENTIALS |-> FALSE]
    /\ env = Calm
    /\ Sheet1 = <<>>
    /\ Sheet2 = <<>>
    /\ \/ \E n \in 1..MaxWords :
              \E wid \in IdChoices(n) : \E sid \in IdChoices(n) : \E tid \in IdChoices(n) :
                  pages = <<[kind |-> "data", data |-> OneToOneData(n, wid, sid, tid)]>>
       \/ \E d \in SharedIdPayloads : pages = <<[kind |-> "data", data |-> d]>>
    /\ csv = NoFile
    /\ InitLocals

NextJoin == SyncScrape

SpecJoin == InitJoin /\ [][NextJoin]_vars

\* the first element of items whose field equals key
FirstWith(items, field, key) ==
    items[CHOOSE i \in 1..Len(items) :
              /\ items[i][field] = key
              /\ \A j \in 1..(i - 1) : items[j][field] # key]

LastWith(items, field, key) ==
    items[CHOOSE i \in 1..Len(items) :
              /\ items[i][field] = key
              /\ \A j \in (i + 1)..Len(items) : items[j][field] # key]

SharesIds(data) ==
    /\ \E i, j \in 1..Len(data.senses) : i # j /\ data.senses[i].wordId = data.senses[j].wordId
    /\ \E i, j \in 1..Len(data.translations) :
          i # j /\ data.translations[i].senseId = data.translations[j].senseId

\* one page has been joined
Joined == prog = "sync" /\ pc = "load" /\ Len(pages) = 1 /\ pages[1].kind = "data"

\* C12: of several senses with the same word id the first in payload order
\* is the one used for the word, and of several translations with the same
\* sense id the first in payload order is the one used for the sense.
C12_FirstWins ==
    (Joined /\ SharesIds(pages[1].data)) =>
        LET data == pages[1].data
            sense == FirstWith(data.senses, "wordId", data.words[1].id)
            trans == FirstWith(data.translations, "senseId", sense.id)
        IN  /\ Len(all_words) = 1
            /\ all_words[1].context_en = sense.contextEn
            /\ all_words[1].english = trans.translation

\* what the dict assignments of lines 91-113 give: the last sense of the
\* word and the last translation of that sense
C12_LastWins ==
    (Joined /\ SharesIds(pages[1].data)) =>
        LET data == pages[1].data
            sense == LastWith(data.senses, "wordId", data.words[1].id)
            trans == LastWith(data.translations, "senseId", sense.id)
        IN  /\ Len(all_words) = 1
            /\ all_words[1].context_en = sense.contextEn
            /\ all_words[1].english = trans.translation

C12_SharedIdsJoined == Joined /\ SharesIds(pages[1].data) /\ all_words # <<>>

\* every word has one sense and every sense one translation
IsOneToOne(data) ==
    /\ \A i \in 1..Len(data.words) :
          /\ data.words[i].source # Empty
          /\ Cardinality({j \in 1..Len(data.senses) :
                             data.senses[j].wordId = data.words[i].id}) = 1
    /\ \A j \in 1..Len(data.senses) :
          Cardinality({k \in 1..Len(data.translations) :
                          data.translations[k].senseId = data.senses[j].id}) = 1

\* the text of the translation attached to the sense of word_entry
TranslationOf(data, word_entry) ==
    LET sense == FirstWith(data.senses, "wordId", word_entry.id)
    IN  FirstWith(data.translations, "senseId", sense.id).translation

JoinedOneToOne == Joined /\ IsOneToOne(pages[1].data)

\* C13: for a payload of N words, each with one sense and each sense with
\* one translation, whatever the integer ids, the Joiner returns N records,
\* one per word in payload order, each with the translation text attached to
\* the word's sense.
C13_OneRecordPerWord ==
    JoinedOneToOne =>
        LET data == pages[1].data
        IN  /\ Len(all_words) = Len(data.words)
            /\ \A i \in 1..Len(data.words) :
                  /\ all_words[i].spanish = data.words[i].source
                  /\ all_words[i].english = TranslationOf(data, data.words[i])

NoSenseIdZero(data) == \A j \in 1..Len(data.senses) : data.senses[j].id # 0

\* what holds of the Joiner when no sense has the id 0
C13_OneRecordPerWordNonZeroSenseIds ==
    (JoinedOneToOne /\ NoSenseIdZero(pages[1].data)) =>
        LET data == pages[1].data
        IN  /\ Len(all_words) = Len(data.words)
            /\ \A i \in 1..Len(data.words) :
                  /\ all_words[i].spanish = data.words[i].source
                  /\ all_words[i].english = TranslationOf(data, data.words[i])

\* with the sense id 0 the record count is still right and the translation empty
C13_SenseIdZeroLosesTranslation ==
    JoinedOneToOne =>
        LET data == pages[1].data
        IN  /\ Len(all_words) = Len(data.words)
            /\ \A i \in 1..Len(data.words) :
                  FirstWith(data.senses, "wordId", data.words[i].id).id = 0
                      => all_words[i].english = Empty

-----------------------------------------------------------------------------
(* The CSV store across one run of sync_vocab.main *)

SyncDone == prog = "sync" /\ pc = "done"

\* the store after the run has a row for the word of old, carrying the
\* enrichment value of old (trimmed) when old has one
RowKept(old) ==
    \E j \in 1..Len(csv.rows) :
        /\ csv.rows[j].Spanish = old.Spanish
        /\ strip(old.AI_Analysis) # Empty => csv.rows[j].AI_Analysis = strip(old.AI_Analysis)

Extracted(word) == \E i \in 1..Len(all_words) : all_words[i].spanish = word

\* C14: every source word with a row in the CSV store before a run of
\* sync_vocab.main has a row in the store after the run, with its stored
\* enrichment value, whether or not the word was extracted in this run.
C14_NeverDeletesRow ==
    SyncDone =>
        \A i \in 1..Len(csvAtStart.rows) :
            csvAtStart.rows[i].Spanish # Empty => RowKept(csvAtStart.rows[i])

\* what the rewrite of export_to_csv keeps: the rows of the words extracted
\* in this run
C14_KeepsExtractedRows ==
    SyncDone =>
        \A i \in 1..Len(csvAtStart.rows) :
            Extracted(csvAtStart.rows[i].Spanish) => RowKept(csvAtStart.rows[i])

\* a stored word with an analysis was extracted again and its row kept
C14_ExtractedRowKept ==
    /\ SyncDone
    /\ \E i \in 1..Len(csvAtStart.rows) :
          /\ Extracted(csvAtStart.rows[i].Spanish)
          /\ strip(csvAtStart.rows[i].AI_Analysis) # Empty
          /\ RowKept(csvAtStart.rows[i])

-----------------------------------------------------------------------------
(* The Dedup/Merge lookup on its own: load_existing_analyses applied to a store *)

\* stores in which a word has several rows with different analyses
LoadRowInputs == CsvRowInputs \cup {StoredRow(Sol, Light), StoredRow(Mar, Sea)}

LoadInputs == {NoFile} \cup {[exists |-> TRUE, rows |-> rows] :
                                rows \in SeqsUpTo(LoadRowInputs, MaxCsvRows)}

InitLoad ==
    /\ prog = "sync"
    /\ environ = [GEMINI_API_KEY |-> FALSE, GOOGLE_SHEETS_CREDENTIALS |-> FALSE]
    /\ env = Calm
    /\ Sheet1 = <<>>
    /\ Sheet2 = <<>>
    /\ pages = <<>>
    /\ csv \in LoadInputs
    /\ InitLocals

NextLoad == SyncScrape \/ SyncLoad

SpecLoad == InitLoad /\ [][NextLoad]_vars

Loaded == prog = "sync" /\ pc = "words" /\ wi = 1

\* the rows of the store that hold an analysis for word
RowsOf(file, word) ==
    SelectSeq(file.rows, LAMBDA row : row.Spanish = word /\ strip(row.AI_Analysis) # Empty)

HasSeveralRows(file, word) == Len(RowsOf(file, word)) > 1

\* C15: when the store holds several rows with the same source word, the
\* lookup maps the word to its first row in store order: the value carried
\* forward is the one of the first occurrence.
C15_FirstOccurrenceWins ==
    Loaded =>
        \A word \in DOMAIN existing :
            existing[word] = strip(RowsOf(csv, word)[1].AI_Analysis)

\* what the dict assignment of line 173 gives: the last row of the word
C15_LastOccurrenceWins ==
    Loaded =>
        \A word \in DOMAIN existing :
            existing[word] = strip(RowsOf(csv, word)[Len(RowsOf(csv, word))].AI_Analysis)

\* a store with two analysed rows of one word has been loaded
C15_SeveralRowsLoaded ==
    /\ Loaded
    /\ \E word \in DOMAIN existing :
          /\ HasSeveralRows(csv, word)
          /\ RowsOf(csv, word)[1].AI_Analysis # RowsOf(csv, word)[2].AI_Analysis

-----------------------------------------------------------------------------
(* The record set of one run of sync_vocab.main *)

Scraped == prog = "sync" /\ pc \in {"load", "words", "done"}

NoEmptyWord == \A i \in 1..Len(all_words) : all_words[i].spanish # Empty

\* C16: the record set carried from extraction into enrichment and export
\* holds no record with an empty source word and no two records with the
\* same source word, so that a word has at most one generation request and
\* one exported row per run.
C16_UniqueNonEmptyWords ==
    Scraped =>
        /\ NoEmptyWord
        /\ NoDuplicateWords
        /\ \A i, j \in 1..Len(posted) : posted[i] = posted[j] => i = j
        /\ \A i, j \in 1..Len(exported) : exported[i].Spanish = exported[j].Spanish => i = j

\* the part that holds: entries without source text are skipped (line 120)
C16_NoEmptyWord == Scraped => NoEmptyWord

\* a payload entry with an empty source was met and skipped
C16_EmptySourceSkipped ==
    /\ Scraped
    /\ \E k \in 1..Len(pages) :
          /\ pages[k].kind = "data"
          /\ \E i \in 1..Len(pages[k].data.words) : pages[k].data.words[i].source = Empty
    /\ all_words # <<>>

-----------------------------------------------------------------------------
(* The classification on its own: one record, its two cells drawn freely *)

\* values that are no sentinel but close to one
NearSentinels ==
    { <<"#","N","/","A","!">>, <<"N","/","A">>, <<"#","E","R","R","O","R">>,
      <<"L","O","A","D","I","N","G">> }

CellInputs ==
    {Empty, Blank, <<"\t", "\n">>, Ok, PaddedOk, NaLower, LoadingMixed,
     <<"#","e","r","r","o","r","!">>, <<"\t","#","R","e","f","!","\n">>}
        \cup SENTINELS \cup NearSentinels

\* Sheet2 rows as the API returns them: trailing empty cells are left out
ClassifyRows ==
    {<<>>} \cup {<<Empty, b>> : b \in CellInputs \ {Empty}}
           \cup {<<Empty, b, Empty, Empty, e>> : b \in CellInputs, e \in CellInputs \ {Empty}}

InitClassify ==
    /\ prog = "analyze"
    /\ environ = [GEMINI_API_KEY |-> TRUE, GOOGLE_SHEETS_CREDENTIALS |-> TRUE]
    /\ env = Calm
    /\ Sheet1 = <<Header1, <<Date1, Sol, Sun>>>>
    /\ \E row \in ClassifyRows : Sheet2 \in {<<Header2, row>>, <<Header2>>}
    /\ pages = <<>>
    /\ csv = NoFile
    /\ InitLocals

NextClassify == Startup \/ ReadAndClassify

SpecClassify == InitClassify /\ [][NextClassify]_vars

IsBlank(v) == \A i \in 1..Len(v) : IsSpace(v[i])

\* absent, empty or whitespace-only, or a sentinel once trimmed and upper-cased
NeedsEnrichment(v) == IsBlank(v) \/ \E s \in SENTINELS : upper(strip(v)) = s

Classified == prog = "analyze" /\ pc \in {"loop", "done"}

HasWord(r) == Len(Sheet1[r]) >= 2 /\ Sheet1[r][2] # Empty

QueuedFor(r) == {i \in 1..Len(words_to_process) : words_to_process[i].row = r}

\* C17: a cell is classified as needing enrichment exactly when it is
\* absent, empty or whitespace-only, or when its trimmed, case-normalized
\* value is one of the sentinels; a record is queued exactly when one of its
\* two enrichment cells is so classified.
C17_Classification ==
    Classified =>
        \A r \in 2..Len(Sheet1) :
            HasWord(r) =>
                LET b == NeedsEnrichment(CellOf(Sheet2AtStart, "B", r))
                    e == NeedsEnrichment(CellOf(Sheet2AtStart, "E", r))
                IN  /\ (QueuedFor(r) # {}) <=> (b \/ e)
                    /\ \A i \in QueuedFor(r) :
                          /\ words_to_process[i].need_analysis <=> b
                          /\ words_to_process[i].need_other <=> e

\* C17 witness: a record is queued for its cell B alone, which holds a
\* padded lower-case sentinel, while its cell E holds a near-sentinel
C17_Witness ==
    /\ Classified
    /\ Len(words_to_process) = 1
    /\ words_to_process[1].need_analysis
    /\ ~words_to_process[1].need_other
    /\ CellOf(Sheet2AtStart, "B", 2) = NaLower
    /\ CellOf(Sheet2AtStart, "E", 2) \in NearSentinels

-----------------------------------------------------------------------------
(* Missing secrets *)

\* the run has not gone past its startup: no store read, no generation
\* request, no store write
StoppedAtStartup ==
    /\ pc \in {"main", "exit"}
    /\ words_to_process = <<>>
    /\ \A c \in DOMAIN calls : calls[c] = 0
    /\ writeLog = <<>>
    /\ Sheet2 = Sheet2AtStart
    /\ all_words = <<>>
    /\ existing = <<>>
    /\ csv = csvAtStart

AnalyzeSecretMissing ==
    prog = "analyze" /\ (~environ.GEMINI_API_KEY \/ ~environ.GOOGLE_SHEETS_CREDENTIALS)

SyncSecretMissing == prog = "sync" /\ ~environ.GEMINI_API_KEY

\* analyze_vocab.main with a secret missing ends in sys.exit(1) at startup
C18_Analyze == AnalyzeSecretMissing => StoppedAtStartup

\* sync_vocab.main with the API key missing ends at startup
C18_Sync == SyncSecretMissing => StoppedAtStartup

\* C18: when a required secret is absent the run stops at startup with a
\* non-zero exit status, before any store read, generation call or store
\* write, in analyze_vocab.main and in sync_vocab.main.
C18_MissingSecretStopsRun == C18_Analyze /\ C18_Sync

\* analyze_vocab.main has left through sys.exit(1)
C18_AnalyzeExited == AnalyzeSecretMissing /\ pc = "exit"

-----------------------------------------------------------------------------
(* What analyze_vocab.main writes *)

\* the cell of Sheet2 in row r and column k (1 = A .. 5 = E), "" when absent
RawCell(sheet, r, k) ==
    IF r <= Len(sheet) /\ k <= Len(sheet[r]) THEN sheet[r][k] ELSE Empty

SheetRows == 1..(IF Len(Sheet2) > Len(Sheet1) THEN Len(Sheet2) ELSE Len(Sheet1))

FlaggedAtStart(c) ==
    /\ c.row \in 2..Len(Sheet1)
    /\ c.col \in {"B", "E"}
    /\ IsFlagged(Sheet1, Sheet2AtStart, c)

C19_State ==
    prog = "analyze" =>
        /\ \A i \in 1..Len(writeLog) : FlaggedAtStart(writeLog[i].range)
        /\ \A r \in SheetRows : \A k \in 1..5 :
              RawCell(Sheet2, r, k) # RawCell(Sheet2AtStart, r, k) =>
                  /\ k \in {2, 5}
                  /\ FlaggedAtStart([col |-> IF k = 2 THEN "B" ELSE "E", row |-> r])

\* C19: every write of analyze_vocab.main targets Sheet2!B{r} or Sheet2!E{r}
\* of a record whose field was flagged at the start of the run, r counting
\* the header as row 1; no other cell of Sheet2 changes, and Sheet1 is never
\* written.
C19_WritesOnlyFlaggedCells == []C19_State /\ [][Sheet1' = Sheet1]_vars

\* C19 witness: a run wrote cell B of a record and left the record's valid
\* cell E, and the cells of an unflagged record, as they were
C19_Witness ==
    /\ prog = "analyze"
    /\ pc = "done"
    /\ Len(Sheet1) = 3
    /\ writeLog # <<>>
    /\ \A i \in 1..Len(writeLog) : writeLog[i].range = [col |-> "B", row |-> 3]
    /\ RawCell(Sheet2, 3, 2) # RawCell(Sheet2AtStart, 3, 2)
    /\ RawCell(Sheet2AtStart, 3, 5) = Ok
    /\ RawCell(Sheet2AtStart, 2, 2) = PaddedOk

-----------------------------------------------------------------------------
(* Full export on its own: export_to_csv applied to an in-memory record set *)

MaxExport == 3        \* records of an exported set

Feb01 == <<"2","0","2","4","-","0","2","-","0","1">>
Jan05 == <<"2","0","2","4","-","0","1","-","0","5">>
Zorro == <<"Z", "o", "r", "r", "o">>
AmorLower == <<"a", "m", "o", "r">>
AmorUpper == <<"A", "m", "o", "r">>

ExportRecord(date, word, english) ==
    [spanish |-> word, english |-> english, context_en |-> Empty,
     part_of_speech |-> <<"noun">>, popularity |-> 7, date_added |-> date,
     ai_analysis |-> Ok]

ExportRecords ==
    { ExportRecord(Feb01, Zorro, Empty), ExportRecord(Jan05, AmorLower, Empty),
      ExportRecord(Jan05, Zorro, Empty), ExportRecord(Jan05, AmorUpper, Empty),
      ExportRecord(Jan05, AmorLower, <<"love">>), ExportRecord(Empty, AmorLower, Empty) }

\* the state at line 253: the loop over all_words is over
InitExport ==
    /\ prog = "sync"
    /\ environ = [GEMINI_API_KEY |-> TRUE, GOOGLE_SHEETS_CREDENTIALS |-> FALSE]
    /\ env = Calm
    /\ rerun = FALSE
    /\ pc = "words"
    /\ Sheet1 = <<>>
    /\ Sheet2 = <<>>
    /\ Sheet2AtStart = <<>>
    /\ words_to_process = <<>>
    /\ idx = 0
    /\ pending_updates = <<>>
    /\ total_written = 0
    /\ site = "none"
    /\ prompt = Empty
    /\ attempt = 0
    /\ statuses = <<>>
    /\ waits = <<>>
    /\ result = Empty
    /\ calls = <<>>
    /\ generated = <<>>
    /\ failed = {}
    /\ failedPrev = {}
    /\ writeLog = <<>>
    /\ flushes = <<>>
    /\ delayed = 0
    /\ pages = <<>>
    /\ csv = NoFile
    /\ csvAtStart = NoFile
    /\ all_words \in SeqsUpTo(ExportRecords, MaxExport)
    /\ existing = <<>>
    /\ new_count = 0
    /\ wi = Len(all_words) + 1
    /\ posted = <<>>
    /\ emptied = {}
    /\ emptiedPrev = {}
    /\ pauses = 0
    /\ exported = <<>>

NextExport == SyncExport

SpecExport == InitExport /\ [][NextExport]_vars

\* row a may stand before row b: earlier date, or the same date and a word
\* that is not greater when both are compared without regard to case
InOrder(a, b) ==
    \/ StrLess(a.Date_Added, b.Date_Added)
    \/ /\ a.Date_Added = b.Date_Added
       /\ ~StrLess(lower(b.Spanish), lower(a.Spanish))

SameKeys(a, b) == a.Date_Added = b.Date_Added /\ lower(a.Spanish) = lower(b.Spanish)

Reorderings(q) ==
    {[i \in 1..Len(q) |-> q[f[i]]] :
        f \in {g \in [1..Len(q) -> 1..Len(q)] : \A i, j \in 1..Len(q) : g[i] = g[j] => i = j}}

\* rows is the export of the record set words
IsExportOf(rows, words) ==
    /\ Len(rows) = Len(words)
    /\ \A i \in 1..Len(words) :
          Count(rows, CsvRow(words[i])) = Count([k \in 1..Len(words) |-> CsvRow(words[k])],
                                                 CsvRow(words[i]))
    /\ \A i, j \in 1..Len(rows) : i < j => InOrder(rows[i], rows[j])
    /\ \A q \in Reorderings(words) :
          \A i \in 1..Len(rows) : SameKeys(export_to_csv(q).rows[i], rows[i])

\* C20: export_to_csv emits one row per record of the in-memory set, ordered
\* by date_added ascending and, among equal dates, by the source word
\* compared case-insensitively ascending; the order does not depend on the
\* order of the input except among records equal on both keys.
C20_ExportOrder ==
    [][(prog = "sync" /\ pc = "words" /\ pc' = "done") => IsExportOf(csv'.rows, all_words)]_vars

\* C20 witness: Zorro of 2024-02-01 and amor of 2024-01-05 were exported,
\* amor first
C20_Witness ==
    /\ prog = "sync"
    /\ pc = "done"
    /\ Len(csv.rows) = 2
    /\ csv.rows[1].Spanish = AmorLower /\ csv.rows[1].Date_Added = Jan05
    /\ csv.rows[2].Spanish = Zorro /\ csv.rows[2].Date_Added = Feb01

====
